---- MODULE Spec2Model ----
(***************************************************************************)
(* Model of adns_server.py: the authoritative resolver (DNSresponse), the  *)
(* zone store (Zone, ZONEDICT, find_zone) and the size-driven truncation.  *)
(*                                                                         *)
(* A domain name is the sequence of its labels, leftmost label first, as   *)
(* in dns.name.Name.labels; every name is absolute and the empty root      *)
(* label is left implicit.  Names compare label by label (the model uses   *)
(* lower-case labels only, as dnspython compares case-insensitively).      *)
(*                                                                         *)
(* One request is one DNSresponse object.  Its construction is stepped:    *)
(* Receive, PrepareResponse, FindAnswer, ProcessName (one iteration of the *)
(* zone walk, with every call it makes), FinishResponse, ToWire, Send.     *)
(* Every recursive call of the source (process_cname -> find_answer) is    *)
(* the last statement of its caller and every caller returns at once, so   *)
(* the recursion is modelled as a jump back to FindAnswer.                 *)
(*                                                                         *)
(* The wire codec is dnspython's; the model keeps the length of the        *)
(* encoding only (without name compression) and the renderer's size limit. *)
(***************************************************************************)
EXTENDS Integers, Sequences, FiniteSets, TLC

VARIABLES
    ZONEDICT,           \* global: origin -> Zone
    EDNS_UDP_MAX,       \* Prefs.EDNS_UDP_MAX (0 disables EDNS)
    pc,                 \* position of the request being handled
    query,              \* DNSquery: qname, qtype, qclass, edns, payload, tcp
    response,           \* self.response: the dns.message being built
    is_referral,        \* self.is_referral
    cname_owner_list,   \* self.cname_owner_list
    dname_owner_list,   \* self.dname_owner_list
    frame,              \* locals of find_answer / find_answer_in_zone
    wire_message,       \* self.wire_message (its length and framing)
    calls               \* calls made so far: find_answer in this request,
                        \* process_name in the current zone walk

vars == <<ZONEDICT, EDNS_UDP_MAX, pc, query, response, is_referral,
          cname_owner_list, dname_owner_list, frame, wire_message, calls>>

-----------------------------------------------------------------------------
(* dns.rdatatype, dns.rdataclass, dns.rcode, dns.flags *)

A == 1
NS == 2
CNAME == 5
SOA == 6
TXT == 16
AAAA == 28
DNAME == 39
META_LOW == 128
ANY == 255
URI == 256

CLASS_IN == 1
CLASS_CH == 3

NOERROR == "NOERROR"
SERVFAIL == "SERVFAIL"
NXDOMAIN == "NXDOMAIN"
NOTIMP == "NOTIMP"
REFUSED == "REFUSED"
YXDOMAIN == "YXDOMAIN"
BADVERS == "BADVERS"

QR == "QR"
AA == "AA"
TC == "TC"

EDNS_UDP_ADV == 1232
EDNS_UDP_MAX_DEFAULT == 1432
UDP_NOEDNS_MAX == 512
TCP_MAX == 65533

\* dnspython: default payload of make_response, renderer limits, wire sizes
MAKE_RESPONSE_PAYLOAD == 8192
RENDER_MIN == 512
RENDER_MAX == 65535
NAME_MAX == 255
HEADER_LEN == 12
QUESTION_FIXED == 4
RR_FIXED == 10
OPT_LEN == 11

-----------------------------------------------------------------------------
(* Names *)

\* Depth of the extra labels put in front of the zones' names to form queries
MaxExtra == 2

Min(a, b) == IF a < b THEN a ELSE b

RECURSIVE NameWire(_)
\* length of the wire form of a name: each label with its length octet, and
\* the root label
NameWire(n) == IF n = <<>> THEN 1 ELSE Len(Head(n)) + 1 + NameWire(Tail(n))

\* dns.name.Name.is_subdomain: n is zname or below it
is_subdomain(n, zname) ==
    /\ Len(zname) <= Len(n)
    /\ SubSeq(n, Len(n) - Len(zname) + 1, Len(n)) = zname

\* dns.name.Name.relativize(origin).labels
relativize(n, origin) ==
    IF is_subdomain(n, origin) THEN SubSeq(n, 1, Len(n) - Len(origin)) ELSE n

\* dns.name.Name.parent
parent(n) == Tail(n)

\* the last k labels of a name: current_name of find_answer_in_zone once the
\* walk is k labels long
Suffix(name, k) == SubSeq(name, Len(name) - k + 1, Len(name))

-----------------------------------------------------------------------------
(* Zone data: the zone files named by the configuration *)

\* a label of the maximal length, 63 octets
L63 == "lllllllllllllllllllllllllllllllllllllllllllllllllllllllllllllll"

E == <<"example", "com">>
Z == <<"z", "example", "com">>
O == <<"other", "org">>
InE(l) == <<l>> \o E
LongName == <<L63, L63, L63, "net">>

NoName == <<>>

\* one rdata: the name it points to (NS, CNAME, DNAME; NoName otherwise), the
\* length of its wire form, and the SOA minimum field
Rdata(target, rdlen) == [target |-> target, rdlen |-> rdlen, minimum |-> 0]
RdName(target) == Rdata(target, NameWire(target))
RdSoa(minimum) == [target |-> NoName, rdlen |-> 50, minimum |-> minimum]
RdA == Rdata(NoName, 4)
RdAAAA == Rdata(NoName, 16)

\* dns.rdataset.Rdataset: a TTL and the rdatas
Rdataset(ttl, rdatas) == [ttl |-> ttl, rdatas |-> rdatas]
\* what get_rdataset returns for an absent type: None, which is false
NoRdataset == Rdataset(0, <<>>)

\* the owner names and RRsets of the zone file of example.com.
ZoneFileE ==
    (E :> (SOA :> Rdataset(3600, <<RdSoa(300)>>)
           @@ NS :> Rdataset(3600, <<RdName(InE("ns1"))>>)))
    @@ (InE("ns1") :> (A :> Rdataset(300, <<RdA>>)))
    @@ (InE("a") :> (A :> Rdataset(300, <<RdA>>)))
    @@ (<<"*", "wild">> \o E :> (A :> Rdataset(300, <<RdA>>)))
    @@ (<<"deep", "ent">> \o E :> (A :> Rdataset(300, <<RdA>>)))
    @@ (<<"*", "wt">> \o E :> (A :> Rdataset(300, <<RdA>>)))
    @@ (<<"deep", "e", "wt">> \o E :> (A :> Rdataset(300, <<RdA>>)))
    @@ (InE("cname") :> (CNAME :> Rdataset(300, <<RdName(InE("a"))>>)))
    @@ (InE("loop1") :> (CNAME :> Rdataset(300, <<RdName(InE("loop2"))>>)))
    @@ (InE("loop2") :> (CNAME :> Rdataset(300, <<RdName(InE("loop1"))>>)))
    @@ (<<"*", "wc">> \o E
          :> (CNAME :> Rdataset(300, <<RdName(<<"x", "wc">> \o E)>>)))
    @@ (<<"*", "w2">> \o E :> (CNAME :> Rdataset(300, <<RdName(InE("lit"))>>)))
    @@ (InE("lit") :> (CNAME :> Rdataset(300, <<RdName(<<"*", "w2">> \o E)>>)))
    @@ (InE("ext") :> (CNAME :> Rdataset(300, <<RdName(<<"www", "outside", "net">>)>>)))
    @@ (InE("xz") :> (CNAME :> Rdataset(300, <<RdName(<<"back">> \o O)>>)))
    @@ (InE("todeleg")
          :> (CNAME :> Rdataset(300, <<RdName(<<"host", "sub">> \o E)>>)))
    @@ (InE("tobig")
          :> (CNAME :> Rdataset(300, <<RdName(<<"host", "bigsub">> \o E)>>)))
    @@ (InE("sub")
          :> (NS :> Rdataset(3600, <<RdName(<<"ns", "sub">> \o E),
                                     RdName(<<"ns">> \o O),
                                     RdName(InE("ns1"))>>)))
    @@ (<<"ns", "sub">> \o E
          :> (A :> Rdataset(300, <<RdA>>) @@ AAAA :> Rdataset(300, <<RdAAAA>>)))
    @@ (InE("bigsub")
          :> (NS :> Rdataset(3600, <<RdName(<<"n1">> \o LongName),
                                     RdName(<<"n2">> \o LongName),
                                     RdName(<<"n3">> \o LongName)>>)))
    @@ (Z :> (NS :> Rdataset(3600, <<RdName(<<"ns">> \o Z)>>)))
    @@ (<<"ns">> \o Z :> (A :> Rdataset(300, <<RdA>>)))
    @@ (InE("alias") :> (DNAME :> Rdataset(600, <<RdName(InE("target"))>>)))
    @@ (InE("target") :> (A :> Rdataset(300, <<RdA>>)))
    @@ (InE("self")
          :> (DNAME :> Rdataset(600, <<RdName(<<"x", "self">> \o E)>>)))
    @@ (InE("dl1") :> (DNAME :> Rdataset(600, <<RdName(InE("dl2"))>>)))
    @@ (InE("dl2") :> (DNAME :> Rdataset(600, <<RdName(InE("dl1"))>>)))
    @@ (InE("long") :> (DNAME :> Rdataset(600, <<RdName(LongName)>>)))
    @@ (InE("dn")
          :> (DNAME :> Rdataset(600, <<RdName(InE("target"))>>)
              @@ NS :> Rdataset(3600, <<RdName(<<"ns", "sub">> \o E)>>)))
    @@ (InE("big") :> (TXT :> Rdataset(300, <<Rdata(NoName, 600)>>)))
    @@ (InE("huge") :> (TXT :> Rdataset(300, <<Rdata(NoName, 1500)>>)))

\* the zone file of z.example.com., a loaded child of example.com.
ZoneFileZ ==
    (Z :> (SOA :> Rdataset(3600, <<RdSoa(7200)>>)
           @@ NS :> Rdataset(3600, <<RdName(<<"ns">> \o Z)>>)))
    @@ (<<"ns">> \o Z :> (A :> Rdataset(300, <<RdA>>)))
    @@ (<<"www">> \o Z :> (A :> Rdataset(300, <<RdA>>)))

\* the zone file of other.org.
ZoneFileO ==
    (O :> (SOA :> Rdataset(3600, <<RdSoa(60)>>)
           @@ NS :> Rdataset(3600, <<RdName(<<"ns">> \o O)>>)))
    @@ (<<"ns">> \o O :> (A :> Rdataset(300, <<RdA>>)))
    @@ (<<"a">> \o O :> (A :> Rdataset(300, <<RdA>>)))
    @@ (<<"back">> \o O :> (CNAME :> Rdataset(300, <<RdName(InE("cname"))>>)))

\* the zone file of example.com. after an edit: the address of a and the
\* target of cname are changed
ZoneFileEdited ==
    [ZoneFileE EXCEPT
       ![InE("a")] = (A :> Rdataset(60, <<RdA, RdA>>)),
       ![InE("cname")] = (CNAME :> Rdataset(300, <<RdName(InE("target"))>>))]

\* dns.zone.from_file: the parsed zone, origin and nodes (name -> type ->
\* rdataset)
from_file(zonefile, zonename) == [origin |-> zonename, nodes |-> zonefile]

-----------------------------------------------------------------------------
(* class Zone *)

RECURSIVE Ancestors(_, _)
\* the names p visited by the loop of get_ent_nodes from n: the strict
\* ancestors of n below the origin
Ancestors(n, origin) ==
    IF n = <<>> \/ parent(n) = origin \/ parent(n) = <<>>
    THEN {}
    ELSE {parent(n)} \cup Ancestors(parent(n), origin)

\* faulty variant of get_ent_nodes: only the parent of each name is tried
get_ent_nodes_parent_only(zone) ==
    {parent(name) : name \in {n \in DOMAIN zone.nodes \ {zone.origin} :
                                 /\ parent(n) # zone.origin
                                 /\ parent(n) \notin DOMAIN zone.nodes}}

\* Zone.get_ent_nodes: the ancestors that have no node
get_ent_nodes(zone) ==
    UNION { {p \in Ancestors(name, zone.origin) : p \notin DOMAIN zone.nodes}
            : name \in DOMAIN zone.nodes \ {zone.origin} }

\* node with no rdatasets
EmptyNode == [t \in {} |-> NoRdataset]

\* Zone.add_nodes: get_node(entry, create=True) for every entry
add_nodes(zone, nodelist) ==
    [zone EXCEPT !.nodes =
        [n \in DOMAIN zone.nodes \cup nodelist |->
            IF n \in DOMAIN zone.nodes THEN zone.nodes[n] ELSE EmptyNode]]

\* Zone.__init__
Zone(zonename, zonefile) ==
    LET parsed == from_file(zonefile, zonename)
    IN  add_nodes(parsed, get_ent_nodes(parsed))

\* init_config: the zone dictionary built from the configured zones
init_config ==
    (E :> Zone(E, ZoneFileE)) @@ (Z :> Zone(Z, ZoneFileZ)) @@ (O :> Zone(O, ZoneFileO))

\* init_config(only_zones=True) once the zone file of example.com. is edited
init_config_edited ==
    (E :> Zone(E, ZoneFileEdited)) @@ (Z :> Zone(Z, ZoneFileZ))
    @@ (O :> Zone(O, ZoneFileO))

\* a zone file with the apex records only
ZoneFileApex(zonename) ==
    zonename :> (SOA :> Rdataset(3600, <<RdSoa(300)>>)
                 @@ NS :> Rdataset(3600, <<RdName(<<"ns">> \o zonename)>>))

\* init_config for a configuration that names the given origins
init_config_origins(origins) == [o \in origins |-> Zone(o, ZoneFileApex(o))]

\* a zone file of example.com. with the apex records and an address at each
\* of the given owner names
ZoneFileOwners(owners) ==
    [n \in {E} \cup owners |->
        IF n = E THEN ZoneFileApex(E)[E] ELSE (A :> Rdataset(300, <<RdA>>))]

\* zone.get_node(name) is not None
has_node(zobj, name) == name \in DOMAIN zobj.nodes

\* zone.get_rdataset(name, rdtype): None when the node or the type is absent
get_rdataset(zobj, name, rdtype) ==
    IF has_node(zobj, name) /\ rdtype \in DOMAIN zobj.nodes[name]
    THEN zobj.nodes[name][rdtype]
    ELSE NoRdataset

\* truth value of a rdataset ("if rdataset:")
Truthy(rdataset) == rdataset.rdatas # <<>>

\* dns.rrset.RRset(name, IN, rdtype) followed by update(rdataset)
RRset(name, rdtype, rdataset) ==
    [name |-> name, rdtype |-> rdtype, ttl |-> rdataset.ttl,
     rdatas |-> rdataset.rdatas]

\* zone.get_rrset(name, rdtype): a new RRset object holding the rdataset
get_rrset(zobj, name, rdtype) == RRset(name, rdtype, get_rdataset(zobj, name, rdtype))

-----------------------------------------------------------------------------
(* find_zone *)

\* the labels of the zone origins in the byte order of dns.name
LabelOrder == <<"com", "example", "org", "other", "z">>
LabelRank(l) == CHOOSE i \in 1..Len(LabelOrder) : LabelOrder[i] = l

RECURSIVE NameCmp(_, _, _)
\* dns.name.Name.fullcompare of absolute names: labels are compared from the
\* root; with the first i labels from the right equal, -1, 0 or 1
NameCmp(a, b, i) ==
    IF i = Len(a) /\ i = Len(b) THEN 0
    ELSE IF i = Len(a) THEN -1
    ELSE IF i = Len(b) THEN 1
    ELSE IF a[Len(a) - i] = b[Len(b) - i] THEN NameCmp(a, b, i + 1)
    ELSE IF LabelRank(a[Len(a) - i]) < LabelRank(b[Len(b) - i]) THEN -1
    ELSE 1

RECURSIVE ReversedSorted(_)
\* reversed(sorted(names))
ReversedSorted(names) ==
    IF names = {} THEN <<>>
    ELSE LET m == CHOOSE x \in names : \A y \in names : NameCmp(y, x, 0) <= 0
         IN  <<m>> \o ReversedSorted(names \ {m})

RECURSIVE FirstEnclosing(_, _)
\* the loop of find_zone over the origins in the given order
FirstEnclosing(order, qname) ==
    IF order = <<>> THEN <<>>
    ELSE IF is_subdomain(qname, Head(order)) THEN <<Head(order)>>
    ELSE FirstEnclosing(Tail(order), qname)

RECURSIVE Sorted(_)
\* sorted(names)
Sorted(names) ==
    IF names = {} THEN <<>>
    ELSE LET m == CHOOSE x \in names : \A y \in names : NameCmp(x, y, 0) <= 0
         IN  <<m>> \o Sorted(names \ {m})

\* faulty variant of find_zone: the origins are tried in sorted order
find_zone_sorted(qname) ==
    LET hit == FirstEnclosing(Sorted(DOMAIN ZONEDICT), qname)
    IN  IF hit = <<>> THEN <<>> ELSE <<ZONEDICT[hit[1]]>>

\* find_zone: <<zone object>>, or <<>> for None
find_zone(qname) ==
    LET hit == FirstEnclosing(ReversedSorted(DOMAIN ZONEDICT), qname)
    IN  IF hit = <<>> THEN <<>> ELSE <<ZONEDICT[hit[1]]>>

-----------------------------------------------------------------------------
(* class DNSresponse: the resolver.  self is the record of what a method   *)
(* can change: the fields of the object, and the zone objects it reaches   *)
(* through the global ZONEDICT.  A method returns self as it leaves it,    *)
(* and the find_answer call it ends with, if any.                          *)

Self ==
    [response |-> response, is_referral |-> is_referral,
     cname_owner_list |-> cname_owner_list, dname_owner_list |-> dname_owner_list,
     ZONEDICT |-> ZONEDICT]

Return(self) == [self |-> self, call |-> <<>>]
Call(self, qname) == [self |-> self, call |-> <<qname>>]

InList(list, x) == \E i \in 1..Len(list) : list[i] = x

\* response.set_rcode
set_rcode(self, rcode) == [self EXCEPT !.response.rcode = rcode]

\* faulty variant of add_soa: the TTL is lowered on the rdataset the zone
\* holds, not on a copy of it
add_soa_in_place(self, zobj) ==
    LET soa_rrset == get_rrset(zobj, zobj.origin, SOA)
        lowered == [soa_rrset EXCEPT
                      !.ttl = Min(soa_rrset.ttl, soa_rrset.rdatas[1].minimum)]
    IN  [self EXCEPT
           !.response.authority = <<lowered>>,
           !.ZONEDICT = [o \in DOMAIN @ |->
                           IF o = zobj.origin
                           THEN [@[o] EXCEPT !.nodes[o][SOA].ttl = lowered.ttl]
                           ELSE @[o]]]

\* DNSresponse.add_soa: get_rrset returns a new RRset, and the TTL is lowered
\* on it
add_soa(self, zobj) ==
    LET soa_rrset == get_rrset(zobj, zobj.origin, SOA)
        lowered == [soa_rrset EXCEPT
                      !.ttl = Min(soa_rrset.ttl, soa_rrset.rdatas[1].minimum)]
    IN  [self EXCEPT !.response.authority = <<lowered>>]

\* faulty variant of process_cname: the CNAME is appended before the loop check
process_cname_append_first(self, rrname, sname, stype, cname_rdataset) ==
    LET added == [self EXCEPT
                    !.response.answer = Append(@, RRset(rrname, CNAME, cname_rdataset))]
    IN  IF InList(self.cname_owner_list, sname)
        THEN Return(set_rcode(added, SERVFAIL))
        ELSE Call([added EXCEPT !.cname_owner_list = Append(@, sname)],
                  cname_rdataset.rdatas[1].target)

\* faulty variant of process_cname: a loop ends the chain without SERVFAIL
process_cname_silent_loop(self, rrname, sname, stype, cname_rdataset) ==
    IF InList(self.cname_owner_list, sname)
    THEN Return(self)
    ELSE Call([self EXCEPT
                 !.cname_owner_list = Append(@, sname),
                 !.response.answer = Append(@, RRset(rrname, CNAME, cname_rdataset))],
              cname_rdataset.rdatas[1].target)

\* faulty variant of process_cname: no check of cname_owner_list
process_cname_no_check(self, rrname, sname, stype, cname_rdataset) ==
    Call([self EXCEPT
            !.cname_owner_list = Append(@, sname),
            !.response.answer = Append(@, RRset(rrname, CNAME, cname_rdataset))],
         cname_rdataset.rdatas[1].target)

\* DNSresponse.process_cname
process_cname(self, rrname, sname, stype, cname_rdataset) ==
    IF InList(self.cname_owner_list, sname)
    THEN Return(set_rcode(self, SERVFAIL))
    ELSE Call([self EXCEPT
                 !.cname_owner_list = Append(@, sname),
                 !.response.answer = Append(@, RRset(rrname, CNAME, cname_rdataset))],
              cname_rdataset.rdatas[1].target)

\* process_dname without the NameTooLong exit: the synthesized name is used
\* whatever its length
process_dname_any_length(self, qname, sname, stype, dname_rdataset) ==
    IF InList(self.dname_owner_list, sname)
    THEN Return(set_rcode(self, SERVFAIL))
    ELSE LET added == [self EXCEPT !.dname_owner_list = Append(@, sname),
                         !.response.answer = Append(@, RRset(sname, DNAME, dname_rdataset))]
             dname_target == dname_rdataset.rdatas[1].target
             cname_target == relativize(qname, sname) \o dname_target
         IN  process_cname(added, qname, qname, stype,
                           Rdataset(dname_rdataset.ttl, <<RdName(cname_target)>>))

\* DNSresponse.process_dname
process_dname(self, qname, sname, stype, dname_rdataset) ==
    IF InList(self.dname_owner_list, sname)
    THEN Return(set_rcode(self, SERVFAIL))
    ELSE LET added == [self EXCEPT
                         !.dname_owner_list = Append(@, sname),
                         !.response.answer =
                             Append(@, RRset(sname, DNAME, dname_rdataset))]
             dname_target == dname_rdataset.rdatas[1].target
             cname_target == relativize(qname, sname) \o dname_target
         IN  IF NameWire(cname_target) > NAME_MAX
             THEN Return(set_rcode(added, YXDOMAIN))
             ELSE process_cname(added, qname, qname, stype,
                                Rdataset(dname_rdataset.ttl, <<RdName(cname_target)>>))

\* faulty variant of find_rrtype: NODATA without the SOA
find_rrtype_no_soa(self, zobj, sname, stype, wildcard_match) ==
    LET rrname == IF wildcard_match # <<>> THEN wildcard_match[1] ELSE sname
        cname_rdataset == get_rdataset(zobj, sname, CNAME)
        rdataset == get_rdataset(zobj, sname, stype)
    IN  IF Truthy(cname_rdataset)
        THEN process_cname(self, rrname, sname, stype, cname_rdataset)
        ELSE IF Truthy(rdataset)
        THEN Return([self EXCEPT
                       !.response.answer = Append(@, RRset(rrname, stype, rdataset))])
        ELSE Return(self)

\* DNSresponse.find_rrtype; wildcard_match is <<name>>, or <<>> for None
find_rrtype(self, zobj, sname, stype, wildcard_match) ==
    LET rrname == IF wildcard_match # <<>> THEN wildcard_match[1] ELSE sname
        cname_rdataset == get_rdataset(zobj, sname, CNAME)
        rdataset == get_rdataset(zobj, sname, stype)
    IN  IF Truthy(cname_rdataset)
        THEN process_cname(self, rrname, sname, stype, cname_rdataset)
        ELSE IF Truthy(rdataset)
        THEN Return([self EXCEPT
                       !.response.answer = Append(@, RRset(rrname, stype, rdataset))])
        ELSE Return(add_soa(self, zobj))

NonEmpty(rrset) == rrset.rdatas # <<>>

\* the inner loop of do_referral: the A and AAAA RRsets at an NS target
GlueAt(zobj, target) ==
    SelectSeq(<<RRset(target, A, get_rdataset(zobj, target, A)),
                RRset(target, AAAA, get_rdataset(zobj, target, AAAA))>>, NonEmpty)

RECURSIVE Glue(_, _, _)
\* the outer loop of do_referral over the NS rdatas
Glue(zobj, sname, rdatas) ==
    IF rdatas = <<>> THEN <<>>
    ELSE (IF is_subdomain(Head(rdatas).target, sname)
          THEN GlueAt(zobj, Head(rdatas).target)
          ELSE <<>>) \o Glue(zobj, sname, Tail(rdatas))

RECURSIVE GlueAnywhere(_, _)
GlueAnywhere(zobj, rdatas) ==
    IF rdatas = <<>> THEN <<>>
    ELSE GlueAt(zobj, Head(rdatas).target) \o GlueAnywhere(zobj, Tail(rdatas))

\* faulty variant of do_referral: glue for every NS target the zone knows
do_referral_any_glue(self, zobj, sname, rdataset) ==
    [self EXCEPT
       !.is_referral = TRUE,
       !.response.authority = Append(@, RRset(sname, NS, rdataset)),
       !.response.additional = @ \o GlueAnywhere(zobj, rdataset.rdatas)]

\* DNSresponse.do_referral
do_referral(self, zobj, sname, rdataset) ==
    [self EXCEPT
       !.is_referral = TRUE,
       !.response.authority = Append(@, RRset(sname, NS, rdataset)),
       !.response.additional = @ \o Glue(zobj, sname, rdataset.rdatas)]

Finished(result) == [self |-> result.self, call |-> result.call, finished |-> TRUE]
NotFinished(self) == [self |-> self, call |-> <<>>, finished |-> FALSE]

\* the wildcard name tried for an absent sname
WildcardOf(sname) == <<"*">> \o Tail(sname)

\* faulty variant of process_name: the delegation is looked for before the
\* DNAME
process_name_ns_first(self, zobj, qname, sname, stype) ==
    IF ~has_node(zobj, sname)
    THEN IF has_node(zobj, WildcardOf(sname))
         THEN Finished(find_rrtype(self, zobj, WildcardOf(sname), stype, <<sname>>))
         ELSE Finished(Return(add_soa(set_rcode(self, NXDOMAIN), zobj)))
    ELSE IF sname # zobj.origin /\ Truthy(get_rdataset(zobj, sname, NS))
    THEN Finished(Return(do_referral(self, zobj, sname,
                                     get_rdataset(zobj, sname, NS))))
    ELSE IF Truthy(get_rdataset(zobj, sname, DNAME))
    THEN Finished(process_dname(self, qname, sname, stype,
                                get_rdataset(zobj, sname, DNAME)))
    ELSE IF sname # qname
    THEN NotFinished(self)
    ELSE Finished(find_rrtype(self, zobj, sname, stype, <<>>))

\* faulty variant of process_name: delegations are not looked for
process_name_no_referral(self, zobj, qname, sname, stype) ==
    IF ~has_node(zobj, sname)
    THEN IF has_node(zobj, WildcardOf(sname))
         THEN Finished(find_rrtype(self, zobj, WildcardOf(sname), stype, <<sname>>))
         ELSE Finished(Return(add_soa(set_rcode(self, NXDOMAIN), zobj)))
    ELSE IF Truthy(get_rdataset(zobj, sname, DNAME))
    THEN Finished(process_dname(self, qname, sname, stype,
                                get_rdataset(zobj, sname, DNAME)))
    ELSE IF sname # qname
    THEN NotFinished(self)
    ELSE Finished(find_rrtype(self, zobj, sname, stype, <<>>))

\* faulty variant of process_name: after the referral at a delegation above
\* qname the walk goes on
process_name_referral_continues(self, zobj, qname, sname, stype) ==
    IF ~has_node(zobj, sname)
    THEN IF has_node(zobj, WildcardOf(sname))
         THEN Finished(find_rrtype(self, zobj, WildcardOf(sname), stype, <<sname>>))
         ELSE Finished(Return(add_soa(set_rcode(self, NXDOMAIN), zobj)))
    ELSE IF Truthy(get_rdataset(zobj, sname, DNAME))
    THEN Finished(process_dname(self, qname, sname, stype,
                                get_rdataset(zobj, sname, DNAME)))
    ELSE IF sname # zobj.origin /\ Truthy(get_rdataset(zobj, sname, NS))
    THEN IF sname # qname
         THEN NotFinished(do_referral(self, zobj, sname, get_rdataset(zobj, sname, NS)))
         ELSE Finished(Return(do_referral(self, zobj, sname,
                                          get_rdataset(zobj, sname, NS))))
    ELSE IF sname # qname
    THEN NotFinished(self)
    ELSE Finished(find_rrtype(self, zobj, sname, stype, <<>>))

\* DNSresponse.process_name
process_name(self, zobj, qname, sname, stype) ==
    IF ~has_node(zobj, sname)
    THEN IF has_node(zobj, WildcardOf(sname))
         THEN Finished(find_rrtype(self, zobj, WildcardOf(sname), stype, <<sname>>))
         ELSE Finished(Return(add_soa(set_rcode(self, NXDOMAIN), zobj)))
    ELSE IF Truthy(get_rdataset(zobj, sname, DNAME))
    THEN Finished(process_dname(self, qname, sname, stype,
                                get_rdataset(zobj, sname, DNAME)))
    ELSE IF sname # zobj.origin /\ Truthy(get_rdataset(zobj, sname, NS))
    THEN Finished(Return(do_referral(self, zobj, sname,
                                     get_rdataset(zobj, sname, NS))))
    ELSE IF sname # qname
    THEN NotFinished(self)
    ELSE Finished(find_rrtype(self, zobj, sname, stype, <<>>))

\* query_meta_type
query_meta_type(qtype) == META_LOW <= qtype /\ qtype <= ANY

-----------------------------------------------------------------------------
(* class DNSresponse: encoding *)

RECURSIVE RdatasLen(_, _)
\* each rdata is one RR: owner, type, class, TTL, rdlength, rdata
RdatasLen(owner, rdatas) ==
    IF rdatas = <<>> THEN 0
    ELSE NameWire(owner) + RR_FIXED + Head(rdatas).rdlen + RdatasLen(owner, Tail(rdatas))

RECURSIVE SectionLen(_)
SectionLen(section) ==
    IF section = <<>> THEN 0
    ELSE RdatasLen(Head(section).name, Head(section).rdatas) + SectionLen(Tail(section))

\* length of the wire form of the message (names uncompressed)
WireLen(resp, qname) ==
    HEADER_LEN + NameWire(qname) + QUESTION_FIXED
    + SectionLen(resp.answer) + SectionLen(resp.authority) + SectionLen(resp.additional)
    + (IF resp.edns >= 0 THEN OPT_LEN ELSE 0)

\* DNSresponse.max_size
max_size(q) ==
    IF q.tcp THEN TCP_MAX
    ELSE IF EDNS_UDP_MAX = 0 \/ q.edns = -1 THEN UDP_NOEDNS_MAX
    ELSE Min(q.payload, EDNS_UDP_MAX)

\* dns.message.Message.to_wire(max_size): the limit the renderer enforces
RenderLimit(resp, size) ==
    LET m == IF size = 0
             THEN (IF resp.request_payload # 0 THEN resp.request_payload ELSE RENDER_MAX)
             ELSE size
    IN  IF m < RENDER_MIN THEN RENDER_MIN ELSE IF m > RENDER_MAX THEN RENDER_MAX ELSE m

\* response.to_wire(max_size=...) raises dns.exception.TooBig
TooBig(resp, qname, size) == WireLen(resp, qname) > RenderLimit(resp, size)

\* faulty variant of truncate: the authority section is kept
truncate_keeps_authority(resp) ==
    [resp EXCEPT !.flags = @ \cup {TC}, !.answer = <<>>, !.additional = <<>>]

\* faulty variant of truncate: the flags are set to QR and TC
truncate_resets_flags(resp) ==
    [resp EXCEPT !.flags = {QR, TC}, !.answer = <<>>, !.authority = <<>>,
                 !.additional = <<>>]

\* DNSresponse.truncate: the message it leaves
truncate(resp) ==
    [resp EXCEPT !.flags = @ \cup {TC}, !.answer = <<>>, !.authority = <<>>,
                 !.additional = <<>>]

\* DNSresponse.to_wire: the message as sent and the wire buffer.  truncate
\* encodes again with to_wire(), max_size 0; TooBig raised there is not caught
\* and no wire message is produced
to_wire(resp, q) ==
    LET toobig == TooBig(resp, q.qname, max_size(q))
        sent == IF toobig THEN truncate(resp) ELSE resp
        len == WireLen(sent, q.qname)
        raised == toobig /\ TooBig(sent, q.qname, 0)
    IN  [response |-> sent,
         raised |-> raised,
         wire |-> IF raised THEN [len |-> 0, prefixed |-> FALSE]
                  ELSE [len |-> IF q.tcp THEN len + 2 ELSE len, prefixed |-> q.tcp]]

\* faulty variant of use_edns: a negative version leaves EDNS as it is
use_edns_keeps(resp, edns, payload, request_payload) ==
    IF edns < 0
    THEN resp
    ELSE [resp EXCEPT !.edns = edns, !.payload = payload,
                      !.request_payload = request_payload]

\* dns.message.Message.use_edns: a negative version removes EDNS
use_edns(resp, edns, payload, request_payload) ==
    IF edns < 0
    THEN [resp EXCEPT !.edns = -1, !.payload = 0, !.request_payload = 0]
    ELSE [resp EXCEPT !.edns = edns, !.payload = payload,
                      !.request_payload = request_payload]

\* dns.message.make_response followed by set_rcode(NOERROR): the reply echoes
\* the question and answers EDNS when the query carried an OPT record
make_response(q) ==
    use_edns([rcode |-> NOERROR, flags |-> {QR}, answer |-> <<>>, authority |-> <<>>,
              additional |-> <<>>, edns |-> -1, payload |-> 0, request_payload |-> 0],
             IF q.edns >= 0 THEN 0 ELSE -1, MAKE_RESPONSE_PAYLOAD, q.payload)

\* faulty variant of prepare_response: the class of the query is not checked
prepare_response_any_class(self, q) ==
    LET negotiated ==
            IF EDNS_UDP_MAX = 0
            THEN [self EXCEPT !.response = use_edns(@, -1, 0, 0)]
            ELSE IF q.edns # -1
            THEN [self EXCEPT !.response = use_edns(@, 0, EDNS_UDP_ADV, EDNS_UDP_MAX)]
            ELSE self
    IN  [self |-> IF query_meta_type(q.qtype)
                  THEN set_rcode(negotiated, NOTIMP)
                  ELSE negotiated,
         resolve |-> TRUE]

\* DNSresponse.prepare_response up to the call of find_answer: self, and
\* whether find_answer is called
prepare_response(self, q) ==
    LET negotiated ==
            IF EDNS_UDP_MAX = 0
            THEN [stop |-> FALSE,
                  self |-> [self EXCEPT !.response = use_edns(@, -1, 0, 0)]]
            ELSE IF q.edns # -1
            THEN [stop |-> FALSE,
                  self |-> [self EXCEPT
                              !.response = use_edns(@, 0, EDNS_UDP_ADV, EDNS_UDP_MAX)]]
            ELSE IF q.edns > 0
            THEN [stop |-> TRUE, self |-> set_rcode(self, BADVERS)]
            ELSE [stop |-> FALSE, self |-> self]
    IN  IF negotiated.stop
        THEN [self |-> negotiated.self, resolve |-> FALSE]
        ELSE IF q.qclass # CLASS_IN
        THEN [self |-> set_rcode(negotiated.self, REFUSED), resolve |-> FALSE]
        ELSE [self |-> IF query_meta_type(q.qtype)
                       THEN set_rcode(negotiated.self, NOTIMP)
                       ELSE negotiated.self,
              resolve |-> TRUE]

\* faulty variant of set_aa: AA is set on every reply
set_aa_always(self) == [self EXCEPT !.response.flags = @ \cup {AA}]

\* DNSresponse.prepare_response after find_answer has returned: the AA flag
set_aa(self) ==
    IF (~self.is_referral) \/ self.response.answer # <<>>
    THEN [self EXCEPT !.response.flags = @ \cup {AA}]
    ELSE self

-----------------------------------------------------------------------------
(* The queries *)

RECURSIVE Extend(_, _)
\* n with k labels "x" in front
Extend(n, k) == IF k = 0 THEN n ELSE <<"x">> \o Extend(n, k - 1)

BaseNames ==
    {E, Z, O, <<"outside", "net">>, <<"www">> \o Z, <<"back">> \o O,
     <<"ns", "sub">> \o E, <<L63, "long">> \o E, <<"e", "wt">> \o E}
    \cup {InE(l) : l \in {"a", "wild", "ent", "cname", "loop1", "wc", "ext", "xz",
                          "todeleg", "tobig", "w2", "lit", "sub", "bigsub", "alias", "self",
                          "dl1", "long", "dn", "big", "huge"}}

QNames == {Extend(n, k) : n \in BaseNames, k \in 0..MaxExtra}

QTypes == {A, NS, CNAME, TXT, DNAME, META_LOW, ANY, URI}

\* the OPT record of the query: version (-1 for none) and advertised payload
EdnsOptions ==
    {[edns |-> -1, payload |-> 0], [edns |-> 0, payload |-> 100],
     [edns |-> 0, payload |-> 700], [edns |-> 0, payload |-> 4096],
     [edns |-> 2, payload |-> 700]}

\* class DNSquery: the parsed queries
Queries ==
    {[qname |-> n, qtype |-> t, qclass |-> c, edns |-> o.edns, payload |-> o.payload,
      tcp |-> tcp] :
        n \in QNames, t \in QTypes, c \in {CLASS_IN, CLASS_CH}, o \in EdnsOptions,
        tcp \in BOOLEAN}

-----------------------------------------------------------------------------
(* The state machine *)

NoQuery ==
    [qname |-> <<>>, qtype |-> 0, qclass |-> 0, edns |-> -1, payload |-> 0,
     tcp |-> FALSE]
NoFrame == [qname |-> <<>>, zobj |-> <<>>, current_name |-> <<>>, label_list |-> <<>>]
NoWire == [len |-> 0, prefixed |-> FALSE]
NoCalls == [find_answer |-> 0, process_name |-> 0]

Init ==
    /\ ZONEDICT = init_config
    /\ EDNS_UDP_MAX \in {0, EDNS_UDP_MAX_DEFAULT}
    /\ pc = "idle"
    /\ query = NoQuery
    /\ response = make_response(NoQuery)
    /\ is_referral = FALSE
    /\ cname_owner_list = <<>>
    /\ dname_owner_list = <<>>
    /\ frame = NoFrame
    /\ wire_message = NoWire
    /\ calls = NoCalls

\* the fields of self are set from the record a method returns
SetSelf(self) ==
    /\ response' = self.response
    /\ is_referral' = self.is_referral
    /\ cname_owner_list' = self.cname_owner_list
    /\ dname_owner_list' = self.dname_owner_list
    /\ ZONEDICT' = self.ZONEDICT

\* handle_connection_udp / handle_connection_tcp: a query is parsed, and
\* DNSresponse.__init__ runs up to the call of prepare_response
ReceiveFrom(queries) ==
    /\ pc = "idle"
    /\ \E q \in queries :
        /\ query' = q
        /\ response' = make_response(q)
    /\ is_referral' = FALSE
    /\ cname_owner_list' = <<>>
    /\ dname_owner_list' = <<>>
    /\ frame' = NoFrame
    /\ wire_message' = NoWire
    /\ calls' = NoCalls
    /\ pc' = "prepare"
    /\ UNCHANGED <<ZONEDICT, EDNS_UDP_MAX>>

Receive == ReceiveFrom(Queries)

\* prepare_response: EDNS, class and meta-type checks
PrepareResponse ==
    /\ pc = "prepare"
    /\ LET r == prepare_response(Self, query)
       IN  /\ SetSelf(r.self)
           /\ pc' = IF r.resolve THEN "find_answer" ELSE "to_wire"
           /\ frame' = IF r.resolve THEN [NoFrame EXCEPT !.qname = query.qname]
                       ELSE frame
    /\ UNCHANGED <<EDNS_UDP_MAX, query, wire_message, calls>>

\* find_answer, and the start of find_answer_in_zone
FindAnswer ==
    /\ pc = "find_answer"
    /\ LET zobj == find_zone(frame.qname)
       IN  IF zobj = <<>>
           THEN /\ response' = IF response.answer = <<>>
                               THEN [response EXCEPT !.rcode = REFUSED]
                               ELSE response
                /\ frame' = [NoFrame EXCEPT !.qname = frame.qname]
                /\ pc' = "finish"
           ELSE /\ response' = response
                /\ frame' = [qname |-> frame.qname,
                             zobj |-> zobj,
                             current_name |-> zobj[1].origin,
                             label_list |-> relativize(frame.qname, zobj[1].origin)]
                /\ pc' = "process_name"
    /\ calls' = [find_answer |-> calls.find_answer + 1, process_name |-> 0]
    /\ UNCHANGED <<ZONEDICT, EDNS_UDP_MAX, query, is_referral, cname_owner_list,
                   dname_owner_list, wire_message>>

\* one iteration of the loop of find_answer_in_zone: process_name at
\* current_name with all it calls, then the next label or the end of the walk
ProcessName ==
    /\ pc = "process_name"
    /\ LET r == process_name(Self, frame.zobj[1], frame.qname, frame.current_name,
                             query.qtype)
           n == Len(frame.label_list)
       IN  /\ SetSelf(r.self)
           /\ IF r.call # <<>>
              THEN /\ pc' = "find_answer"
                   /\ frame' = [frame EXCEPT !.qname = r.call[1]]
              ELSE IF r.finished \/ frame.label_list = <<>>
              THEN /\ pc' = "finish"
                   /\ frame' = frame
              ELSE /\ pc' = "process_name"
                   /\ frame' = [frame EXCEPT
                                  !.label_list = SubSeq(@, 1, n - 1),
                                  !.current_name = <<frame.label_list[n]>> \o @]
    /\ calls' = [calls EXCEPT !.process_name = @ + 1]
    /\ UNCHANGED <<EDNS_UDP_MAX, query, wire_message>>

\* prepare_response after find_answer: the AA flag
FinishResponse ==
    /\ pc = "finish"
    /\ SetSelf(set_aa(Self))
    /\ pc' = "to_wire"
    /\ UNCHANGED <<EDNS_UDP_MAX, query, frame, wire_message, calls>>

\* DNSresponse.to_wire, with truncate when the message is too big
ToWire ==
    /\ pc = "to_wire"
    /\ LET r == to_wire(response, query)
       IN  /\ response' = r.response
           /\ wire_message' = r.wire
           /\ pc' = IF r.raised THEN "failed" ELSE "sent"
    /\ UNCHANGED <<ZONEDICT, EDNS_UDP_MAX, query, is_referral, cname_owner_list,
                   dname_owner_list, frame, calls>>

\* handle_query: the wire message is sent (or the exception of to_wire ends
\* the thread) and the request is over
HandleQuery ==
    /\ pc \in {"sent", "failed"}
    /\ pc' = "idle"
    /\ query' = NoQuery
    /\ response' = make_response(NoQuery)
    /\ is_referral' = FALSE
    /\ cname_owner_list' = <<>>
    /\ dname_owner_list' = <<>>
    /\ frame' = NoFrame
    /\ wire_message' = NoWire
    /\ calls' = NoCalls
    /\ UNCHANGED <<ZONEDICT, EDNS_UDP_MAX>>

Next ==
    \/ Receive
    \/ PrepareResponse
    \/ FindAnswer
    \/ ProcessName
    \/ FinishResponse
    \/ ToWire
    \/ HandleQuery

Spec == Init /\ [][Next]_vars

\* the queries that differ in what the resolver does with them: every name
\* and type, class IN, over UDP without EDNS
ResolverQueries ==
    {q \in Queries : q.qclass = CLASS_IN /\ q.edns = -1 /\ ~q.tcp}

ReceiveResolverQuery == ReceiveFrom(ResolverQueries)

\* handle_sighup: the zone files are read again, changed or not, and the
\* global is bound to the new dictionary; the signal may arrive at any point
\* of a request
HandleSighup ==
    /\ ZONEDICT' \in {init_config, init_config_edited}
    /\ UNCHANGED <<EDNS_UDP_MAX, pc, query, response, is_referral, cname_owner_list,
                   dname_owner_list, frame, wire_message, calls>>

NextReload ==
    \/ ReceiveResolverQuery
    \/ PrepareResponse
    \/ FindAnswer
    \/ ProcessName
    \/ FinishResponse
    \/ ToWire
    \/ HandleQuery
    \/ HandleSighup

\* the server with reloads of the zones while requests are handled
ReloadSpec == Init /\ [][NextReload]_vars

\* origins a configuration may name: the root, parents, children and
\* siblings, in two top-level domains
Origins ==
    {<<>>, <<"com">>, E, Z, <<"other">> \o E, <<"org">>, O, <<"example", "org">>}

\* the server started with any non-empty set of these origins
InitOrigins ==
    /\ ZONEDICT \in {init_config_origins(origins) : origins \in SUBSET Origins \ {{}}}
    /\ EDNS_UDP_MAX = EDNS_UDP_MAX_DEFAULT
    /\ pc = "idle"
    /\ query = NoQuery
    /\ response = make_response(NoQuery)
    /\ is_referral = FALSE
    /\ cname_owner_list = <<>>
    /\ dname_owner_list = <<>>
    /\ frame = NoFrame
    /\ wire_message = NoWire
    /\ calls = NoCalls

\* queries for the origins, names below them and a name in no domain served
OriginQueries ==
    {[qname |-> n, qtype |-> A, qclass |-> CLASS_IN, edns |-> -1, payload |-> 0,
      tcp |-> FALSE] :
        n \in Origins \cup {<<"x">> \o o : o \in Origins} \cup {<<"x", "net">>}}

ReceiveOriginQuery == ReceiveFrom(OriginQueries)

NextOrigins ==
    \/ ReceiveOriginQuery
    \/ PrepareResponse
    \/ FindAnswer
    \/ ProcessName
    \/ FinishResponse
    \/ ToWire
    \/ HandleQuery

\* the server with any set of origins loaded
OriginsSpec == InitOrigins /\ [][NextOrigins]_vars

\* owner names a zone file of example.com. may hold, up to three labels below
\* the apex, with and without their ancestors
Owners ==
    {InE("a"), <<"b", "a">> \o E, <<"c", "b", "a">> \o E, InE("d"),
     <<"x", "y", "d">> \o E, <<"*", "w">> \o E, <<"c", "b", "z">> \o E}

\* Zone.__init__ has parsed the zone file, any set of the owner names, and
\* has not yet added the empty non-terminals
InitParsed ==
    /\ ZONEDICT \in {(E :> from_file(ZoneFileOwners(owners), E)) : owners \in SUBSET Owners}
    /\ EDNS_UDP_MAX = EDNS_UDP_MAX_DEFAULT
    /\ pc = "loading"
    /\ query = NoQuery
    /\ response = make_response(NoQuery)
    /\ is_referral = FALSE
    /\ cname_owner_list = <<>>
    /\ dname_owner_list = <<>>
    /\ frame = NoFrame
    /\ wire_message = NoWire
    /\ calls = NoCalls

\* Zone.__init__ after from_file: add_nodes(get_ent_nodes()), for each zone
ZoneInit ==
    /\ pc = "loading"
    /\ ZONEDICT' = [o \in DOMAIN ZONEDICT |->
                      add_nodes(ZONEDICT[o], get_ent_nodes(ZONEDICT[o]))]
    /\ pc' = "idle"
    /\ UNCHANGED <<EDNS_UDP_MAX, query, response, is_referral, cname_owner_list,
                   dname_owner_list, frame, wire_message, calls>>

\* queries for the owner names and the names above them
OwnerQueries ==
    {[qname |-> n, qtype |-> A, qclass |-> CLASS_IN, edns |-> -1, payload |-> 0,
      tcp |-> FALSE] :
        n \in UNION {{o} \cup Ancestors(o, E) : o \in Owners}}

ReceiveOwnerQuery == ReceiveFrom(OwnerQueries)

NextZones ==
    \/ ZoneInit
    \/ ReceiveOwnerQuery
    \/ PrepareResponse
    \/ FindAnswer
    \/ ProcessName
    \/ FinishResponse
    \/ ToWire
    \/ HandleQuery

\* the server from the construction of its zone, for any zone file
ZonesSpec == InitParsed /\ [][NextZones]_vars

\* the requests this thread handles: every name, with a type the zones
\* have, one they lack, and a meta type
WorkerQueries == {q \in ResolverQueries : q.qtype \in {A, NS, TXT, ANY}}

ReceiveWorkerQuery == ReceiveFrom(WorkerQueries)

\* the requests another worker thread resolves meanwhile
OtherQueries ==
    {q \in ResolverQueries :
        /\ q.qtype \in {A, TXT}
        /\ q.qname \in {InE("a"), InE("ent"), Extend(InE("a"), 1),
                        Extend(InE("wild"), 1), Extend(InE("sub"), 1),
                        Extend(InE("alias"), 1)}}

\* self of the other thread when its walk starts
OtherSelf(q) ==
    [response |-> make_response(q), is_referral |-> FALSE, cname_owner_list |-> <<>>,
     dname_owner_list |-> <<>>, ZONEDICT |-> ZONEDICT]

\* threading.Thread(target=handler): another thread handles a request of its
\* own meanwhile.  Its DNSquery and DNSresponse objects are its own; what it
\* shares with this thread is ZONEDICT.  One iteration of the loop of its
\* find_answer_in_zone, at a name its walk reaches, and what that does to
\* the zones
OtherWorker ==
    /\ \E q \in OtherQueries :
          LET zobj == find_zone(q.qname)
          IN  /\ zobj # <<>>
              /\ \E k \in Len(zobj[1].origin)..Len(q.qname) :
                    /\ \A j \in Len(zobj[1].origin)..(k - 1) :
                          LET r == process_name(OtherSelf(q), zobj[1], q.qname,
                                                Suffix(q.qname, j), q.qtype)
                          IN  ~r.finished /\ r.call = <<>>
                    /\ ZONEDICT' = process_name(OtherSelf(q), zobj[1], q.qname,
                                                Suffix(q.qname, k), q.qtype).self.ZONEDICT
    /\ UNCHANGED <<EDNS_UDP_MAX, pc, query, response, is_referral, cname_owner_list,
                   dname_owner_list, frame, wire_message, calls>>

NextWorkers ==
    \/ ReceiveWorkerQuery
    \/ PrepareResponse
    \/ FindAnswer
    \/ ProcessName
    \/ FinishResponse
    \/ ToWire
    \/ HandleQuery
    \/ OtherWorker

\* the server with requests handled one after the other by this thread and,
\* interleaved with its steps, by another thread
WorkersSpec == Init /\ [][NextWorkers]_vars

TypeOK ==
    /\ pc \in {"loading", "idle", "prepare", "find_answer", "process_name", "finish", "to_wire",
               "sent", "failed"}
    /\ response.rcode \in {NOERROR, SERVFAIL, NXDOMAIN, NOTIMP, REFUSED, YXDOMAIN, BADVERS}
    /\ response.flags \subseteq {QR, AA, TC}
    /\ is_referral \in BOOLEAN

-----------------------------------------------------------------------------
(* Properties *)

\* the walk of the current find_answer_in_zone call
WalkZone == frame.zobj[1]
InWalk == frame.zobj # <<>>
Resolved == pc \in {"finish", "to_wire"}
SectionsEmpty(resp) ==
    resp.answer = <<>> /\ resp.authority = <<>> /\ resp.additional = <<>>
RRsetsOf(section, rdtype) == {i \in 1..Len(section) : section[i].rdtype = rdtype}

\* process_name at current_name finds no node but the wildcard sibling, which
\* holds a CNAME or the queried type
AtWildcardAnswer ==
    /\ pc = "process_name"
    /\ ~has_node(WalkZone, frame.current_name)
    /\ has_node(WalkZone, WildcardOf(frame.current_name))
    /\ \/ Truthy(get_rdataset(WalkZone, WildcardOf(frame.current_name), CNAME))
       \/ Truthy(get_rdataset(WalkZone, WildcardOf(frame.current_name), query.qtype))

\* C1 (as claimed): an RRset put in the answer section from a wildcard node
\* has the queried name of that resolution step as its owner, at any depth
\* below the wildcard's parent.
C1_WildcardOwnerIsQname ==
    [][AtWildcardAnswer =>
          /\ Len(response'.answer) = Len(response.answer) + 1
          /\ response'.answer[Len(response'.answer)].name = frame.qname]_vars

\* C2 (as claimed): with EDNS enabled, a query whose OPT record has a
\* version above 0 is answered BADVERS without the resolver being called: the
\* sections are empty and the reply carries an OPT record.
C2_BadversStops ==
    (EDNS_UDP_MAX # 0 /\ query.edns > 0 /\ pc \notin {"idle", "prepare"}) =>
        /\ response.rcode = BADVERS
        /\ pc \in {"to_wire", "sent"}
        /\ SectionsEmpty(response)
        /\ response.edns >= 0

\* C3 (as claimed): a UDP reply is no longer than max_size(), also when the
\* advertised payload is below 512, and a reply whose full encoding exceeds
\* max_size() is sent with TC and empty sections.
C3_WithinMaxSize ==
    [][(pc = "to_wire" /\ ~query.tcp) =>
          /\ wire_message'.len <= max_size(query)
          /\ (WireLen(response, query.qname) > max_size(query) =>
                TC \in response'.flags /\ SectionsEmpty(response'))]_vars

\* the size budget with the floor of 512 octets that the encoder applies
Budget == IF max_size(query) < 512 THEN 512 ELSE max_size(query)

\* C3 (amended): every UDP query gets a reply no longer than the larger of
\* 512 and max_size(); a reply whose full encoding exceeds that is sent with TC
\* and empty sections, and any other reply is sent as the resolver built it.
C3_WithinBudget ==
    [][(pc = "to_wire" /\ ~query.tcp) =>
          /\ pc' = "sent"
          /\ wire_message'.len <= Budget
          /\ IF WireLen(response, query.qname) > Budget
             THEN TC \in response'.flags /\ SectionsEmpty(response')
             ELSE response' = response]_vars

\* a UDP reply was truncated for a query advertising a payload below 512
C3_Witness ==
    /\ pc = "sent" /\ ~query.tcp /\ EDNS_UDP_MAX # 0
    /\ query.edns = 0 /\ query.payload < 512
    /\ TC \in response.flags

\* C4 (as claimed): in the reply finally sent to an IN query, AA is set iff
\* the answer section is non-empty or the response is not a referral, also
\* after truncation.
C4_AAInSentReply ==
    (pc = "sent" /\ query.qclass = CLASS_IN) =>
        (AA \in response.flags <=> (response.answer # <<>> \/ ~is_referral))

\* C4 (amended): for an IN query, AA is set iff the answer section of the
\* reply as the resolver built it (before truncation) is non-empty or the
\* response is not a referral; to_wire, truncating or not, leaves AA as it is.
C4_AABeforeTruncation ==
    /\ []((pc = "to_wire" /\ query.qclass = CLASS_IN) =>
            (AA \in response.flags <=> (response.answer # <<>> \/ ~is_referral)))
    /\ [][pc = "to_wire" => (AA \in response'.flags <=> AA \in response.flags)]_vars

\* a referral reached through an alias was truncated: AA stays set
C4_Witness ==
    /\ pc = "sent" /\ query.qclass = CLASS_IN
    /\ TC \in response.flags /\ is_referral /\ AA \in response.flags
    /\ cname_owner_list # <<>>

\* the walk ended at a name that does not exist (no node, no wildcard)
EndedNxdomain ==
    /\ InWalk
    /\ ~has_node(WalkZone, frame.current_name)
    /\ ~has_node(WalkZone, WildcardOf(frame.current_name))

\* the walk ended at the target node, or at the wildcard node matching it,
\* which holds neither a CNAME nor the queried type
EndedNodata ==
    /\ InWalk
    /\ LET s == frame.current_name
           node == IF has_node(WalkZone, s) THEN s ELSE WildcardOf(s)
       IN  /\ has_node(WalkZone, node)
           /\ has_node(WalkZone, s) =>
                /\ s = frame.qname
                /\ ~Truthy(get_rdataset(WalkZone, s, DNAME))
                /\ s = WalkZone.origin \/ ~Truthy(get_rdataset(WalkZone, s, NS))
           /\ ~Truthy(get_rdataset(WalkZone, node, CNAME))
           /\ ~Truthy(get_rdataset(WalkZone, node, query.qtype))

\* C5: when resolution ends in NXDOMAIN or NODATA, the authority section of
\* the untruncated reply is exactly the SOA RRset of the zone that decided
\* it, and the answer section holds only the CNAME/DNAME records of the
\* chain, none of them the queried type at the final target.
C5_NegativeAnswerHasSoa ==
    (Resolved /\ (EndedNxdomain \/ EndedNodata)) =>
        /\ Len(response.authority) = 1
        /\ response.authority[1].name = WalkZone.origin
        /\ response.authority[1].rdtype = SOA
        /\ response.authority[1].rdatas
             = get_rdataset(WalkZone, WalkZone.origin, SOA).rdatas
        /\ \A i \in 1..Len(response.answer) :
             /\ response.answer[i].rdtype \in {CNAME, DNAME}
             /\ ~(response.answer[i].name = frame.qname
                  /\ response.answer[i].rdtype = query.qtype)

\* NXDOMAIN was decided at the end of an alias chain
C5_Witness ==
    /\ pc = "to_wire" /\ EndedNxdomain
    /\ response.rcode = NXDOMAIN
    /\ response.answer # <<>>

\* C6: no two CNAME RRsets of the answer section have the same owner, and no
\* two DNAME RRsets have the same owner.
C6_NoDuplicateAliasOwner ==
    \A i, j \in 1..Len(response.answer) :
        (/\ i # j
         /\ response.answer[i].rdtype = response.answer[j].rdtype
         /\ response.answer[i].rdtype \in {CNAME, DNAME})
        => response.answer[i].name # response.answer[j].name

\* a CNAME loop was followed until it closed
C6_Witness ==
    /\ pc = "finish" /\ response.rcode = SERVFAIL
    /\ Cardinality(RRsetsOf(response.answer, CNAME)) >= 2
    /\ dname_owner_list = <<>>

\* the walk ended at a non-apex name that holds NS and no DNAME
EndedAtDelegation ==
    /\ InWalk
    /\ has_node(WalkZone, frame.current_name)
    /\ frame.current_name # WalkZone.origin
    /\ Truthy(get_rdataset(WalkZone, frame.current_name, NS))
    /\ ~Truthy(get_rdataset(WalkZone, frame.current_name, DNAME))

\* the NS targets of the delegation at the current name
NsTargets ==
    LET ns == get_rdataset(WalkZone, frame.current_name, NS).rdatas
    IN  {ns[i].target : i \in 1..Len(ns)}

\* C7: when the walk reaches a delegation the response the resolver builds is
\* a referral: is_referral is set, the NS RRset of the delegation is in the
\* authority section, AA is set only if the answer section holds records of
\* an earlier alias step, and the additional section holds exactly the A and
\* AAAA RRsets that the zone has for the NS targets at or below the
\* delegation name, one per target and address type.
C7_Referral ==
    (Resolved /\ EndedAtDelegation) =>
        /\ is_referral
        /\ response.authority
             = <<RRset(frame.current_name, NS,
                       get_rdataset(WalkZone, frame.current_name, NS))>>
        /\ pc = "to_wire" => (AA \in response.flags <=> response.answer # <<>>)
        /\ \A i \in 1..Len(response.additional) :
             LET rr == response.additional[i]
             IN  /\ rr.rdtype \in {A, AAAA}
                 /\ rr.name \in NsTargets
                 /\ is_subdomain(rr.name, frame.current_name)
                 /\ rr.rdatas = get_rdataset(WalkZone, rr.name, rr.rdtype).rdatas
        /\ \A t \in NsTargets, rdtype \in {A, AAAA} :
             Cardinality({i \in 1..Len(response.additional) :
                            /\ response.additional[i].name = t
                            /\ response.additional[i].rdtype = rdtype})
               = IF /\ is_subdomain(t, frame.current_name)
                    /\ Truthy(get_rdataset(WalkZone, t, rdtype))
                 THEN 1 ELSE 0

\* a referral reached through a CNAME, with glue, and an NS target outside
\* the delegation that has an address in the zone
C7_Witness ==
    /\ pc = "to_wire" /\ EndedAtDelegation
    /\ response.answer # <<>>
    /\ response.additional # <<>>
    /\ \E t \in NsTargets :
         ~is_subdomain(t, frame.current_name) /\ Truthy(get_rdataset(WalkZone, t, A))

\* C8 (as claimed): an IN query for a meta-type is answered NOTIMP with an
\* empty answer section, whatever the name and the zones.
C8_MetaTypeNotimp ==
    (pc \in {"to_wire", "sent"} /\ query.qclass = CLASS_IN
       /\ query_meta_type(query.qtype)) =>
        response.rcode = NOTIMP /\ response.answer = <<>>

\* C9 (as claimed): when find_answer is given a name in no loaded zone, an
\* empty answer section gives REFUSED with empty sections, and a non-empty
\* one leaves the RCODE unchanged, the reply being NOERROR with exactly the
\* chain accumulated so far.
C9_UnservedName ==
    [][(pc = "find_answer" /\ find_zone(frame.qname) = <<>>) =>
          IF response.answer = <<>>
          THEN response'.rcode = REFUSED /\ SectionsEmpty(response')
          ELSE /\ response'.rcode = response.rcode
               /\ response'.rcode = NOERROR
               /\ response'.answer = response.answer
               /\ response'.authority = <<>> /\ response'.additional = <<>>]_vars

\* process_name at current_name calls process_dname for an owner that is
\* already in dname_owner_list
EntersDnameLoop ==
    /\ pc = "process_name"
    /\ has_node(WalkZone, frame.current_name)
    /\ Truthy(get_rdataset(WalkZone, frame.current_name, DNAME))
    /\ InList(dname_owner_list, frame.current_name)

\* process_name at current_name calls process_cname for a name that is
\* already in cname_owner_list: the wildcard node, the target node, or the
\* owner of the CNAME synthesized from a DNAME
EntersCnameLoop ==
    /\ pc = "process_name"
    /\ LET s == frame.current_name
           w == WildcardOf(s)
           dname == get_rdataset(WalkZone, s, DNAME)
       IN  \/ /\ ~has_node(WalkZone, s)
              /\ has_node(WalkZone, w)
              /\ Truthy(get_rdataset(WalkZone, w, CNAME))
              /\ InList(cname_owner_list, w)
           \/ /\ has_node(WalkZone, s)
              /\ ~Truthy(dname)
              /\ s = WalkZone.origin \/ ~Truthy(get_rdataset(WalkZone, s, NS))
              /\ s = frame.qname
              /\ Truthy(get_rdataset(WalkZone, s, CNAME))
              /\ InList(cname_owner_list, s)
           \/ /\ has_node(WalkZone, s)
              /\ Truthy(dname)
              /\ ~InList(dname_owner_list, s)
              /\ NameWire(relativize(frame.qname, s) \o dname.rdatas[1].target) <= 255
              /\ InList(cname_owner_list, frame.qname)

\* C10: the RCODE becomes SERVFAIL exactly in the step that enters
\* process_cname for a name already in cname_owner_list or process_dname for an
\* owner already in dname_owner_list; that step appends no CNAME (and, for a
\* DNAME loop, nothing at all) and ends the resolution, and no later step of
\* the request changes the SERVFAIL.
C10_ServfailOnLoop ==
    [][/\ (response'.rcode = SERVFAIL /\ response.rcode # SERVFAIL)
            <=> (EntersDnameLoop \/ EntersCnameLoop)
       /\ EntersDnameLoop =>
            /\ response'.answer = response.answer
            /\ dname_owner_list' = dname_owner_list
            /\ cname_owner_list' = cname_owner_list
            /\ pc' = "finish"
       /\ EntersCnameLoop =>
            /\ cname_owner_list' = cname_owner_list
            /\ Cardinality(RRsetsOf(response'.answer, CNAME))
                 = Cardinality(RRsetsOf(response.answer, CNAME))
            /\ pc' = "finish"
       /\ (response.rcode = SERVFAIL /\ pc \notin {"sent", "failed"}) =>
            /\ response'.rcode = SERVFAIL
            /\ pc' \in {"to_wire", "sent", "failed"}]_vars

\* a DNAME loop was detected and the reply was sent with SERVFAIL
C10_Witness ==
    /\ pc = "sent"
    /\ response.rcode = SERVFAIL
    /\ Len(dname_owner_list) >= 2

-----------------------------------------------------------------------------
(* Termination *)

\* the names that hold a CNAME, and those that hold a DNAME, in the loaded zones
CnameNodes ==
    UNION {{n \in DOMAIN ZONEDICT[o].nodes : Truthy(get_rdataset(ZONEDICT[o], n, CNAME))}
             : o \in DOMAIN ZONEDICT}
DnameOwners ==
    UNION {{n \in DOMAIN ZONEDICT[o].nodes : Truthy(get_rdataset(ZONEDICT[o], n, DNAME))}
             : o \in DOMAIN ZONEDICT}

NoRepeat(list) == \A i, j \in 1..Len(list) : i # j => list[i] # list[j]

\* the bound on the find_answer calls of one request
MaxFindAnswerCalls == 1 + Cardinality(CnameNodes) + Cardinality(DnameOwners)

\* what is left of a request at position p, with c find_answer calls made of
\* the m it may make and the labels l left to the walk: the find_answer calls
\* it may still make, then the labels not visited, then the steps after the
\* resolver
Rank(m, p, c, l) ==
    CASE p = "prepare" -> <<m + 2, 0>>
      [] p = "find_answer" -> <<m - c + 1, 0>>
      [] p = "process_name" -> <<m - c + 1, Len(l) + 1>>
      [] p = "finish" -> <<0, 2>>
      [] p = "to_wire" -> <<0, 1>>
      [] OTHER -> <<0, 0>>

\* C11: resolution of every query terminates.  A zone walk calls process_name
\* at most (labels of qname relative to the origin + 1) times.  Every find_answer
\* call after the first follows the recording of a new name in
\* cname_owner_list; that list and dname_owner_list never repeat a name, a
\* recorded DNAME owner holds a DNAME, and the recorded CNAME names that hold
\* no CNAME are at most one per recorded DNAME owner: find_answer is called at
\* most once more than there are CNAME nodes and DNAME owners.  A repeat
\* ends the chain with SERVFAIL and no further find_answer call.  Every step
\* of a request lowers its rank, a pair of natural numbers in lexicographic
\* order, so no request takes infinitely many steps.
C11_Terminates ==
    /\ [](LET cnames == CnameNodes
              dnames == DnameOwners
              m == 1 + Cardinality(cnames) + Cardinality(dnames)
              rank == Rank(m, pc, calls.find_answer, frame.label_list)
          IN  /\ calls.find_answer <= 1 + Len(cname_owner_list)
              /\ NoRepeat(cname_owner_list)
              /\ NoRepeat(dname_owner_list)
              /\ \A i \in 1..Len(dname_owner_list) : dname_owner_list[i] \in dnames
              /\ Cardinality({i \in 1..Len(cname_owner_list) :
                                 cname_owner_list[i] \notin cnames})
                    <= Len(dname_owner_list)
              /\ calls.find_answer <= m
              /\ rank[1] \in Nat /\ rank[2] \in Nat)
    /\ [][/\ pc = "process_name" =>
                calls'.process_name
                  <= Len(relativize(frame.qname, WalkZone.origin)) + 1
          /\ (EntersDnameLoop \/ EntersCnameLoop) =>
                /\ response'.rcode = SERVFAIL
                /\ pc' = "finish"
                /\ calls'.find_answer = calls.find_answer
          /\ pc \notin {"idle", "sent", "failed"} =>
                LET m == MaxFindAnswerCalls
                    before == Rank(m, pc, calls.find_answer, frame.label_list)
                    after == Rank(m, pc', calls'.find_answer, frame'.label_list)
                IN  \/ after[1] < before[1]
                    \/ after[1] = before[1] /\ after[2] < before[2]]_vars

\* a query below a DNAME whose target is below its own owner came to its end
C11_Witness ==
    /\ pc = "sent"
    /\ dname_owner_list = <<InE("self")>>
    /\ calls.find_answer = 2
    /\ calls.process_name >= 2
    /\ response.rcode = SERVFAIL

-----------------------------------------------------------------------------
(* Reload *)

\* the stores the server has had: the one loaded at the start and the one
\* loaded from the edited file
Stores == {init_config, init_config_edited}
ZonesOf(store) == {store[o] : o \in DOMAIN store}

\* C12 (as claimed): with reloads replacing the store while a request is
\* handled, the zone a find_answer call selects and the zone the previous
\* find_answer call of the same request walked belong to one store, the old
\* one or the new one.
C12_OneStorePerRequest ==
    [][(pc = "find_answer" /\ frame.zobj # <<>> /\ pc' = "process_name") =>
          \E store \in Stores :
              frame.zobj[1] \in ZonesOf(store) /\ frame'.zobj[1] \in ZonesOf(store)]_vars

-----------------------------------------------------------------------------
(* Zone selection *)

\* the loaded origins that are the name or a suffix of it
Enclosing(qname) == {o \in DOMAIN ZONEDICT : is_subdomain(qname, o)}

\* C13: for every name and every set of loaded origins, find_zone returns the
\* zone of the longest origin that is the name or a suffix of it, and None
\* exactly when no loaded origin is; the first enclosing origin met in
\* reversed sorted order is the deepest one.
C13_FindZoneClosest ==
    [][pc = "find_answer" =>
          LET enclosing == Enclosing(frame.qname)
              order == ReversedSorted(DOMAIN ZONEDICT)
          IN  /\ (frame'.zobj = <<>>) <=> (enclosing = {})
              /\ enclosing # {} =>
                    /\ frame'.zobj[1].origin \in enclosing
                    /\ frame'.zobj[1] = ZONEDICT[frame'.zobj[1].origin]
                    /\ \A o \in enclosing : Len(o) <= Len(frame'.zobj[1].origin)
                    /\ \A i, j \in 1..Len(order) :
                          (order[i] \in enclosing /\ order[j] \in enclosing /\ i < j)
                            => Len(order[i]) > Len(order[j])]_vars

\* the deepest of four enclosing origins was selected, with origins of
\* another domain loaded that sort after it
C13_Witness ==
    /\ pc = "process_name"
    /\ frame.qname = <<"x">> \o Z
    /\ frame.zobj[1].origin = Z
    /\ {<<>>, <<"com">>, E, Z, O, <<"org">>} \subseteq DOMAIN ZONEDICT

-----------------------------------------------------------------------------
(* Empty non-terminals *)

\* the name is a node with no RRsets and a strict descendant owns records
IsEnt(zobj, name) ==
    /\ has_node(zobj, name)
    /\ DOMAIN zobj.nodes[name] = {}
    /\ \E d \in DOMAIN zobj.nodes :
          d # name /\ is_subdomain(d, name) /\ DOMAIN zobj.nodes[d] # {}

\* the name is at or below a DNAME or a delegation of the zone
AtOrBelowCut(zobj, name) ==
    \E a \in DOMAIN zobj.nodes :
        /\ is_subdomain(name, a)
        /\ \/ Truthy(get_rdataset(zobj, a, DNAME))
           \/ a # zobj.origin /\ Truthy(get_rdataset(zobj, a, NS))

\* the zone has the name or a name below it
HasNodeOrDescendant(zobj, name) ==
    \E d \in DOMAIN zobj.nodes : is_subdomain(d, name)

\* the query is for an empty non-terminal of the zone selected for it, not
\* at or below a DNAME or a delegation
QueryForEnt ==
    /\ query.qclass = CLASS_IN
    /\ find_zone(query.qname) # <<>>
    /\ IsEnt(find_zone(query.qname)[1], query.qname)
    /\ ~AtOrBelowCut(find_zone(query.qname)[1], query.qname)

\* C14 (as claimed): a query for an empty non-terminal of the selected zone,
\* not at or below a DNAME or delegation, is answered NODATA: NOERROR, empty
\* answer, the SOA of the zone in the authority section; NXDOMAIN is the RCODE
\* only when the zone has neither the name being resolved nor a name below it.
C14_EntIsNodata ==
    /\ (pc \in {"to_wire", "sent"} /\ QueryForEnt) =>
          /\ response.rcode = NOERROR
          /\ response.answer = <<>>
          /\ Len(response.authority) = 1
          /\ response.authority[1].name = find_zone(query.qname)[1].origin
          /\ response.authority[1].rdtype = SOA
          /\ response.additional = <<>>
    /\ (Resolved /\ response.rcode = NXDOMAIN) =>
          /\ InWalk
          /\ ~HasNodeOrDescendant(WalkZone, frame.qname)

-----------------------------------------------------------------------------
(* Zone construction *)

\* C15: Zone construction leaves the parsed nodes as they are and adds
\* nodes such that every node but the origin has its parent as a node, hence
\* every strict ancestor up to the origin; an added node has no RRsets and is
\* a strict ancestor, below the origin, of a name of the parsed zone.
C15_ZoneClosure ==
    [][pc = "loading" =>
          \A o \in DOMAIN ZONEDICT :
              LET parsed == ZONEDICT[o]
                  built == ZONEDICT'[o]
                  names == DOMAIN built.nodes
              IN  /\ built.origin = o
                  /\ \A n \in names \ {o} : parent(n) \in names
                  /\ \A n \in names : \A k \in Len(o)..Len(n) :
                        SubSeq(n, Len(n) - k + 1, Len(n)) \in names
                  /\ \A n \in DOMAIN parsed.nodes :
                        n \in names /\ built.nodes[n] = parsed.nodes[n]
                  /\ \A n \in names \ DOMAIN parsed.nodes :
                        /\ DOMAIN built.nodes[n] = {}
                        /\ n # o /\ is_subdomain(n, o)
                        /\ \E d \in DOMAIN parsed.nodes :
                              d # n /\ is_subdomain(d, n)]_vars

\* the zone was built from a file that has c.b.a.example.com. and neither of
\* the two names between it and the apex
C15_Witness ==
    /\ pc = "idle"
    /\ E \in DOMAIN ZONEDICT
    /\ has_node(ZONEDICT[E], <<"c", "b", "a">> \o E)
    /\ has_node(ZONEDICT[E], <<"b", "a">> \o E)
    /\ has_node(ZONEDICT[E], InE("a"))
    /\ ZONEDICT[E].nodes[<<"b", "a">> \o E] = EmptyNode
    /\ ZONEDICT[E].nodes[InE("a")] = EmptyNode

-----------------------------------------------------------------------------
(* Truncation *)

\* C16 (as claimed): TC is set in a reply iff the encoding of the full reply
\* is longer than max_size(); a reply with TC has empty sections and the
\* RCODE, the AA flag and the OPT record of the untruncated reply.
C16_TcIffOverMaxSize ==
    [][pc = "to_wire" =>
          /\ (TC \in response'.flags) <=> (WireLen(response, query.qname) > max_size(query))
          /\ TC \in response'.flags =>
                /\ SectionsEmpty(response')
                /\ response'.rcode = response.rcode
                /\ (AA \in response'.flags) <=> (AA \in response.flags)
                /\ response'.edns = response.edns
                /\ response'.payload = response.payload]_vars

\* C16 (amended): no reply has TC before it is encoded; TC is set in the reply
\* sent iff the encoding of the full reply is longer than the larger of 512
\* and max_size(); a reply with TC has empty sections and differs from the
\* untruncated reply in nothing else than TC and the sections: RCODE, AA and
\* the OPT record are the same; a reply without TC is sent as it was built.
C16_TcIffOverBudget ==
    /\ [](pc # "sent" => TC \notin response.flags)
    /\ [][pc = "to_wire" =>
            /\ pc' = "sent"
            /\ (TC \in response'.flags) <=> (WireLen(response, query.qname) > Budget)
            /\ TC \in response'.flags =>
                  /\ SectionsEmpty(response')
                  /\ response' = [response EXCEPT
                                    !.flags = @ \cup {TC}, !.answer = <<>>,
                                    !.authority = <<>>, !.additional = <<>>]
                  /\ response'.rcode = response.rcode
                  /\ (AA \in response'.flags) <=> (AA \in response.flags)
                  /\ response'.edns = response.edns
                  /\ response'.payload = response.payload
            /\ TC \notin response'.flags => response' = response]_vars

\* a reply with an OPT record and AA was truncated for a query that
\* advertises more than 512 octets
C16_Witness ==
    /\ pc = "sent"
    /\ TC \in response.flags
    /\ AA \in response.flags
    /\ response.edns = 0
    /\ query.payload >= 512
    /\ ~query.tcp

-----------------------------------------------------------------------------
(* EDNS *)

\* C17: once prepare_response has negotiated EDNS, the reply carries an OPT
\* record iff EDNS is enabled and the query carried one, and then it has
\* version 0 and advertises 1232 octets; when EDNS is disabled or the query
\* has no OPT record, max_size() is 512 for UDP: the reply is sent in at most
\* 512 octets, truncated iff its full encoding is longer.
C17_OptInReply ==
    /\ [](pc \notin {"loading", "idle", "prepare"} =>
            /\ (response.edns >= 0) <=> (EDNS_UDP_MAX # 0 /\ query.edns # -1)
            /\ response.edns >= 0 =>
                  response.edns = 0 /\ response.payload = EDNS_UDP_ADV
            /\ (EDNS_UDP_MAX = 0 \/ query.edns = -1) =>
                  /\ response.edns = -1
                  /\ ~query.tcp => max_size(query) = UDP_NOEDNS_MAX)
    /\ [][(pc = "to_wire" /\ ~query.tcp /\ (EDNS_UDP_MAX = 0 \/ query.edns = -1)) =>
            /\ wire_message'.len <= UDP_NOEDNS_MAX
            /\ response'.edns = -1
            /\ (TC \in response'.flags)
                  <=> (WireLen(response, query.qname) > UDP_NOEDNS_MAX)]_vars

\* a reply with the OPT record of the server was sent to a query that
\* advertised 4096 octets
C17_Witness ==
    /\ pc = "sent"
    /\ query.edns = 0 /\ query.payload = 4096
    /\ response.edns = 0 /\ response.payload = EDNS_UDP_ADV
    /\ response.answer # <<>>

-----------------------------------------------------------------------------
(* Query class *)

\* C18: a query whose class is not IN is answered REFUSED and find_answer is
\* never called for it: no find_answer or process_name call is made, the
\* three sections are empty, is_referral, cname_owner_list and
\* dname_owner_list keep their initial values, and the request goes from
\* prepare_response to the encoding, whatever the name and the type.
C18_NotInRefused ==
    (query.qclass # CLASS_IN /\ pc \notin {"loading", "idle", "prepare"}) =>
        /\ response.rcode = REFUSED
        /\ pc \in {"to_wire", "sent"}
        /\ calls = NoCalls
        /\ frame = NoFrame
        /\ SectionsEmpty(response)
        /\ ~is_referral
        /\ cname_owner_list = <<>>
        /\ dname_owner_list = <<>>

\* a CH query for a meta-type at a name that a loaded zone holds was answered
C18_Witness ==
    /\ pc = "sent"
    /\ query.qclass = CLASS_CH
    /\ query_meta_type(query.qtype)
    /\ find_zone(query.qname) # <<>>
    /\ Truthy(get_rdataset(find_zone(query.qname)[1], query.qname, CNAME))
    /\ response.rcode = REFUSED

-----------------------------------------------------------------------------
(* Order of the zone walk *)

\* what the zone has at a name: no node, a DNAME, a delegation (NS at a
\* name other than the apex, without DNAME), or none of these
KindOf(zobj, name) ==
    IF ~has_node(zobj, name) THEN "absent"
    ELSE IF Truthy(get_rdataset(zobj, name, DNAME)) THEN "dname"
    ELSE IF name # zobj.origin /\ Truthy(get_rdataset(zobj, name, NS)) THEN "delegation"
    ELSE "plain"

\* C19: the walk visits the names from the apex towards qname; every name
\* above the one being visited is a node without DNAME and without
\* delegation, so the walk acts on the shallowest name that is absent, holds
\* a DNAME or is a delegation, and it ends there: no deeper name is visited.
\* At a name with a DNAME, also one with NS beside it, the step synthesizes
\* from the DNAME (or detects its loop) and is_referral, authority and
\* additional stay as they are.  At a name that has a node the wildcard is not
\* consulted: the walk moves one label down with the response unchanged, or,
\* at qname, any RRset added to the answer is the one of that node.
C19_WalkOrder ==
    /\ [](pc = "process_name" =>
            LET z == WalkZone
                s == frame.current_name
            IN  /\ ~is_referral
                /\ is_subdomain(s, z.origin)
                /\ is_subdomain(frame.qname, s)
                /\ frame.label_list = relativize(frame.qname, s)
                /\ \A k \in Len(z.origin)..(Len(s) - 1) :
                      KindOf(z, Suffix(s, k)) = "plain")
    /\ [][pc = "process_name" =>
            LET z == WalkZone
                s == frame.current_name
                kind == KindOf(z, s)
                n == Len(response.answer)
            IN  /\ kind # "plain" => pc' \in {"finish", "find_answer"}
                /\ (kind = "absent" /\ ~has_node(z, WildcardOf(s))) =>
                      /\ response'.rcode = NXDOMAIN
                      /\ response'.answer = response.answer
                      /\ pc' = "finish"
                /\ kind = "dname" =>
                      /\ is_referral' = is_referral
                      /\ response'.authority = response.authority
                      /\ response'.additional = response.additional
                      /\ \/ /\ response'.rcode = SERVFAIL
                            /\ response'.answer = response.answer
                            /\ InList(dname_owner_list, s)
                         \/ /\ Len(response'.answer) > n
                            /\ response'.answer[n + 1]
                                 = RRset(s, DNAME, get_rdataset(z, s, DNAME))
                            /\ dname_owner_list' = Append(dname_owner_list, s)
                /\ kind = "delegation" =>
                      /\ is_referral'
                      /\ response'.answer = response.answer
                      /\ pc' = "finish"
                /\ (kind = "plain" /\ s # frame.qname) =>
                      /\ pc' = "process_name"
                      /\ frame'.current_name = Suffix(frame.qname, Len(s) + 1)
                      /\ response' = response
                      /\ is_referral' = is_referral
                /\ (kind = "plain" /\ s = frame.qname) =>
                      /\ pc' \in {"finish", "find_answer"}
                      /\ is_referral' = is_referral
                      /\ Len(response'.answer) <= n + 1
                      /\ Len(response'.answer) = n + 1 =>
                            LET rr == response'.answer[n + 1]
                            IN  /\ rr.name = s
                                /\ rr.rdtype \in {CNAME, query.qtype}
                                /\ rr.rdatas = get_rdataset(z, s, rr.rdtype).rdatas]_vars

\* a query below a name that holds a DNAME and NS was answered from the
\* DNAME and not referred
C19_Witness ==
    /\ pc = "sent"
    /\ dname_owner_list = <<InE("dn")>>
    /\ Len(query.qname) > Len(InE("dn"))
    /\ ~is_referral
    /\ AA \in response.flags

-----------------------------------------------------------------------------
(* Delegations *)

\* the delegation points of a zone: the names other than the apex with NS
DelegationPoints(zobj) ==
    {d \in DOMAIN zobj.nodes : d # zobj.origin /\ Truthy(get_rdataset(zobj, d, NS))}

AtOrBelowDelegation(zobj, name) ==
    \E d \in DelegationPoints(zobj) : is_subdomain(name, d)

StrictlyBelowDelegation(zobj, name) ==
    \E d \in DelegationPoints(zobj) : is_subdomain(name, d) /\ name # d

\* C20: in every step of a chain, the node the walk reads (the visited
\* name, or its wildcard sibling when it is absent) is not strictly below a
\* delegation point of the zone selected for the step; an RRset the step
\* puts in the answer section is the RRset of that node, owned by a name
\* that is not strictly below one, or it is the CNAME synthesized from the
\* DNAME of the visited name, which is read from no node; an SOA
\* (NXDOMAIN or NODATA) is added only for a name that is not at or below one,
\* and RRsets are added to the additional section only by a referral, as
\* A/AAAA RRsets of names at or below the delegation.
C20_NothingBelowDelegation ==
    /\ [](pc = "process_name" =>
            /\ ~StrictlyBelowDelegation(WalkZone, frame.current_name)
            /\ ~has_node(WalkZone, frame.current_name) =>
                  ~StrictlyBelowDelegation(WalkZone, WildcardOf(frame.current_name)))
    /\ [][pc = "process_name" =>
            LET z == WalkZone
                s == frame.current_name
                n == Len(response.answer)
                m == Len(response.additional)
            IN  /\ \A i \in (n + 1)..Len(response'.answer) :
                      LET rr == response'.answer[i]
                      IN  \/ /\ ~StrictlyBelowDelegation(z, rr.name)
                             /\ \E node \in {s, WildcardOf(s)} :
                                   /\ ~StrictlyBelowDelegation(z, node)
                                   /\ rr.rdatas = get_rdataset(z, node, rr.rdtype).rdatas
                          \/ /\ KindOf(z, s) = "dname"
                             /\ i = n + 2
                             /\ rr.rdtype = CNAME
                             /\ rr.name = frame.qname
                /\ (response'.authority # response.authority
                       /\ response'.authority[1].rdtype = SOA) =>
                      ~AtOrBelowDelegation(z, frame.qname)
                /\ response'.rcode = NXDOMAIN => ~AtOrBelowDelegation(z, frame.qname)
                /\ Len(response'.additional) > m =>
                      /\ is_referral' /\ ~is_referral
                      /\ s \in DelegationPoints(z)
                      /\ \A i \in (m + 1)..Len(response'.additional) :
                            /\ response'.additional[i].rdtype \in {A, AAAA}
                            /\ is_subdomain(response'.additional[i].name, s)]_vars

\* a query for the address of a name server below a delegation was answered
\* by a referral that has the address as glue
C20_Witness ==
    /\ pc = "to_wire"
    /\ query.qname = <<"ns", "sub">> \o E
    /\ query.qtype = A
    /\ is_referral
    /\ response.answer = <<>>
    /\ \E i \in 1..Len(response.additional) : response.additional[i].name = query.qname

\* the synthesized target of a DNAME step: the labels of qname above the
\* DNAME owner, then the DNAME target
SynthesizedTarget(zobj, qname, sname) ==
    relativize(qname, sname) \o get_rdataset(zobj, sname, DNAME).rdatas[1].target

\* C21: a step of the walk at a name that holds a DNAME and is not yet in
\* dname_owner_list records the name there and appends the DNAME RRset, owned
\* by that name, to the answer.  When the synthesized target fits in 255
\* octets the step also appends a CNAME owned by qname, with the TTL of the
\* DNAME and the synthesized target as its only rdata, records qname in
\* cname_owner_list, leaves the rcode alone and goes on with find_answer at
\* the target.  When it does not fit the rcode becomes YXDOMAIN, nothing but
\* the DNAME RRset is appended, cname_owner_list stays as it is and the
\* resolution ends.  Authority, additional and is_referral are untouched in
\* both cases.
C21_DnameSynthesis ==
    [][(/\ pc = "process_name"
        /\ KindOf(WalkZone, frame.current_name) = "dname"
        /\ ~InList(dname_owner_list, frame.current_name)) =>
          LET z == WalkZone
              s == frame.current_name
              q == frame.qname
              ds == get_rdataset(z, s, DNAME)
              t == SynthesizedTarget(z, q, s)
              dname_rrset == [name |-> s, rdtype |-> DNAME, ttl |-> ds.ttl,
                              rdatas |-> ds.rdatas]
              cname_rrset == [name |-> q, rdtype |-> CNAME, ttl |-> ds.ttl,
                              rdatas |-> <<RdName(t)>>]
          IN  /\ dname_owner_list' = Append(dname_owner_list, s)
              /\ response'.authority = response.authority
              /\ response'.additional = response.additional
              /\ is_referral' = is_referral
              /\ IF NameWire(t) > NAME_MAX
                 THEN /\ response'.rcode = YXDOMAIN
                      /\ response'.answer = Append(response.answer, dname_rrset)
                      /\ cname_owner_list' = cname_owner_list
                      /\ pc' = "finish"
                 ELSE /\ response'.rcode = response.rcode
                      /\ response'.answer = response.answer \o <<dname_rrset, cname_rrset>>
                      /\ cname_owner_list' = Append(cname_owner_list, q)
                      /\ pc' = "find_answer"
                      /\ frame'.qname = t]_vars

\* a query for a name two labels below alias.example.com. was answered from
\* the DNAME there: the answer has the DNAME RRset, the CNAME synthesized for
\* the query name with the TTL of the DNAME, and what was found at the target
C21_Witness ==
    /\ pc = "to_wire"
    /\ Len(query.qname) = Len(InE("alias")) + 2
    /\ is_subdomain(query.qname, InE("alias"))
    /\ dname_owner_list = <<InE("alias")>>
    /\ cname_owner_list = <<query.qname>>
    /\ Len(response.answer) >= 2
    /\ response.answer[1].rdtype = DNAME
    /\ response.answer[2] = [name |-> query.qname, rdtype |-> CNAME,
                             ttl |-> response.answer[1].ttl,
                             rdatas |-> <<RdName(relativize(query.qname, InE("alias"))
                                                   \o InE("target"))>>]
    /\ response.rcode = NXDOMAIN

\* a query below long.example.com. ended with YXDOMAIN, the DNAME RRset
\* alone in the answer
C21_TooLongReached ==
    /\ pc = "to_wire"
    /\ response.rcode = YXDOMAIN
    /\ dname_owner_list = <<InE("long")>>
    /\ cname_owner_list = <<>>
    /\ Len(response.answer) = 1
    /\ response.answer[1].rdtype = DNAME

\* the SOA rdataset a zone holds at its apex
StoredSoa(zobj) == get_rdataset(zobj, zobj.origin, SOA)

\* C22: the zone store is never changed by the handling of requests, in this
\* thread or in another one whose steps interleave with it: ZONEDICT is at
\* every moment the dictionary init_config built, with the same zones, nodes,
\* rdatasets, rdata and TTLs, and no step changes it.  A step that puts an
\* SOA in the authority section gives it the lower of the stored TTL and the
\* SOA minimum and leaves the stored TTL as it was; a step that answers from
\* a wildcard under the name the walk visits leaves the wildcard node as it
\* was and creates no node for the visited name.
C22_StoreUnchanged ==
    /\ [](ZONEDICT = init_config)
    /\ [][ZONEDICT' = ZONEDICT]_vars
    /\ [][(pc = "process_name" /\ response'.authority # response.authority
             /\ response'.authority[1].rdtype = SOA) =>
            /\ response'.authority[1].ttl =
                  Min(StoredSoa(WalkZone).ttl, StoredSoa(WalkZone).rdatas[1].minimum)
            /\ StoredSoa(ZONEDICT'[WalkZone.origin]) = StoredSoa(WalkZone)]_vars
    /\ [][(/\ pc = "process_name"
           /\ ~has_node(WalkZone, frame.current_name)
           /\ has_node(WalkZone, WildcardOf(frame.current_name))
           /\ Len(response'.answer) > Len(response.answer)) =>
            LET z == ZONEDICT'[WalkZone.origin]
            IN  /\ ~has_node(z, frame.current_name)
                /\ z.nodes[WildcardOf(frame.current_name)] =
                      WalkZone.nodes[WildcardOf(frame.current_name)]]_vars

\* a negative answer went out with the SOA of example.com. at the SOA
\* minimum, below the TTL the zone holds for it, and the zone still holds
\* the higher TTL
C22_Witness ==
    /\ pc = "to_wire"
    /\ response.rcode = NXDOMAIN
    /\ Len(response.authority) = 1
    /\ response.authority[1].rdtype = SOA
    /\ response.authority[1].name = E
    /\ response.authority[1].ttl < StoredSoa(ZONEDICT[E]).ttl
    /\ response.authority[1].ttl = StoredSoa(ZONEDICT[E]).rdatas[1].minimum

\* the resolution of the request is under way: find_answer has not returned
Resolving == pc \in {"find_answer", "process_name"}

\* C23: the authority section never holds more than one RRset, and what it
\* holds is an SOA or an NS RRset.  While the resolution is under way the
\* section is empty and is_referral is unset, so the step in which add_soa
\* or do_referral runs is a step that changes one of them; such a step finds
\* the section empty, leaves exactly one RRset in it, an NS RRset with
\* is_referral set (do_referral) or an SOA RRset with is_referral unset
\* (add_soa), and ends the resolution, whatever chain of CNAMEs and DNAMEs
\* led to it.  No other step adds to the section.  Hence when the resolution
\* has ended a referral has one NS RRset and no SOA, and a reply with
\* NXDOMAIN, or with NOERROR and nothing in the answer that is not a
\* referral, has one SOA and no NS.
C23_OneAuthorityRRset ==
    /\ [](/\ Len(response.authority) <= 1
          /\ \A i \in 1..Len(response.authority) :
                response.authority[i].rdtype \in {SOA, NS})
    /\ [](Resolving => response.authority = <<>> /\ ~is_referral)
    /\ [](Resolved =>
            /\ is_referral <=> RRsetsOf(response.authority, NS) # {}
            /\ response.rcode = NXDOMAIN => RRsetsOf(response.authority, SOA) # {}
            /\ (EndedNxdomain \/ EndedNodata) => RRsetsOf(response.authority, NS) = {})
    /\ [][(/\ pc = "process_name"
           /\ \/ response'.authority # response.authority
              \/ is_referral' # is_referral) =>
            /\ response.authority = <<>>
            /\ Len(response'.authority) = 1
            /\ is_referral' <=> response'.authority[1].rdtype = NS
            /\ ~is_referral' <=> response'.authority[1].rdtype = SOA
            /\ pc' = "finish"]_vars
    /\ [][pc # "process_name" =>
            \/ response'.authority = response.authority
            \/ response'.authority = <<>>]_vars

\* a query for a name whose CNAME points below a delegation ended as a
\* referral: the CNAME in the answer, the NS RRset alone in the authority
\* section, no SOA
C23_Witness ==
    /\ pc = "to_wire"
    /\ query.qname = InE("todeleg")
    /\ cname_owner_list = <<InE("todeleg")>>
    /\ is_referral
    /\ Len(response.answer) = 1
    /\ response.answer[1].rdtype = CNAME
    /\ Len(response.authority) = 1
    /\ response.authority[1].rdtype = NS
    /\ response.authority[1].name = InE("sub")

====
